---- MODULE Spec2Model ----
(***************************************************************************)
(* A model of ldep (src/ldep.c): the object/symbol database built from     *)
(* 'nm -f posix' listings, the link driver, and the unlink engine.         *)
(*                                                                         *)
(* Pointers are modelled as they are used by the code:                     *)
(*   - an ObjF is the position of the object in the list of all objects    *)
(*     (fileListHead ... fileListTail); position 0 is undefSymPod;         *)
(*   - an Xref is the pair <<object, index>> of the array slot it lives    *)
(*     in; the null Xref is the empty tuple;                               *)
(*   - a Sym is its name; names are 1..NumSyms, ordered as strcmp orders   *)
(*     them;                                                               *)
(*   - a Lib is the position of the library in the list of libraries       *)
(*     (libListHead ...), 0 is the null pointer;                           *)
(*   - the name of an object or library is the tuple of its characters.    *)
(* The code stores Xref pointers in an 'unsigned' (ldep.c:113,137); the    *)
(* model assumes a build where a pointer fits (ILP32).                     *)
(***************************************************************************)
EXTENDS Integers, Sequences, FiniteSets, TLC

(* ------------------------------ bounds --------------------------------- *)
MaxObjs == 3
MaxRefs == 2
MaxRecs == 4
NumSyms == 2
MaxFiles == 2

(* --------------------------- program values ---------------------------- *)
NIL == -1
BUSY == -2
MATCH_ANY == -2
NOLIB == 0
undefSymPod == 0
NILX == <<>>
NoSet == "none"
appLinkSet == "Application"
undefLinkSet == "UNDEFINED"
optionalLinkSet == "Optional"
LinkSets == {appLinkSet, undefLinkSet, optionalLinkSet}
Syms == 1..NumSyms
ImportTypes == {"U"}
WeakTypes == {"W"}
ExportTypes == {"T", "C"} \cup WeakTypes
ScanTypes == {"U", "T"}

VARIABLES
    pc,          \* where main() is: "scan", "gathered", "linked", "aborted"
    nfile,       \* number of input files scanned to their end
    curObj,      \* scan_file's local 'obj' (NIL at the start of each file)
    nobj,        \* fileListTail: objects 1..nobj were created, in this order
    lastAppObj,  \* main's lastAppObj
    symTbl,      \* symbol name -> [type, exportedBy, importedFrom]
    exports,     \* object -> array of Xref [sym, obj, weak, next]
    imports,     \* object -> array of Xref [sym, obj, weak, next]
    link,        \* object -> LinkNodeRec [anchor, next]
    lset,        \* link set -> head of its object list (LinkSetRec.set)
    work,        \* object -> work slot
    linkLog,     \* the (f, symname) arguments of the recursive linkObj calls
    last,        \* the last operation run after the link driver, with its result
                 \* and the value it leaves in the static depwalkMode
    abort,       \* "none", or the assertion / fault that ended the process
    fileName,    \* object -> ObjF.name, the member name
    fileLib,     \* object -> ObjF.lib, NOLIB for an object outside any library
    libList,     \* the names of the libraries, libListHead first
    fileListIndex, \* main's sorted index of all objects (empty until built)
    warn         \* scan_file's local 'warn': the last symbol line drew the
                 \* type-mismatch warning

vars == <<pc, nfile, curObj, nobj, lastAppObj, symTbl, exports, imports,
          link, lset, work, linkLog, last, abort, fileName, fileLib, libList,
          fileListIndex, warn>>

files == <<fileName, fileLib, libList, fileListIndex>>

graph == <<symTbl, exports, imports, link, lset>>

Objs == 0..nobj

(* -------------------------------- names -------------------------------- *)
\* the characters that occur in names, with their codes
Ascii == "." :> 46 @@ "/" :> 47 @@ "<" :> 60 @@ ">" :> 62 @@ "D" :> 68 @@
         "E" :> 69 @@ "F" :> 70 @@ "I" :> 73 @@ "L" :> 76 @@ "M" :> 77 @@
         "N" :> 78 @@ "U" :> 85 @@ "[" :> 91 @@ "]" :> 93 @@ "a" :> 97 @@
         "b" :> 98 @@ "f" :> 102 @@ "o" :> 111

\* undefSymPod.name, "<UNDEFINED>"
UndefName == <<"<", "U", "N", "D", "E", "F", "I", "N", "E", "D", ">">>

RECURSIVE strcmpFrom(_, _, _)
strcmpFrom(a, b, i) ==
    IF i > Len(a) /\ i > Len(b) THEN 0
    ELSE IF i > Len(a) THEN 0 - Ascii[b[i]]
    ELSE IF i > Len(b) THEN Ascii[a[i]]
    ELSE IF a[i] = b[i] THEN strcmpFrom(a, b, i + 1)
    ELSE Ascii[a[i]] - Ascii[b[i]]

strcmp(a, b) == strcmpFrom(a, b, 1)

\* position of the first / last c in name, 0 for the null pointer
strchr(name, c) ==
    IF \E i \in 1..Len(name) : name[i] = c
    THEN CHOOSE i \in 1..Len(name) : name[i] = c /\ \A j \in 1..(i - 1) : name[j] # c
    ELSE 0

strrchr(name, c) ==
    IF \E i \in 1..Len(name) : name[i] = c
    THEN CHOOSE i \in 1..Len(name) : name[i] = c /\ \A j \in (i + 1)..Len(name) : name[j] # c
    ELSE 0

\* splitName: 'ok' is FALSE for the null return; 'po' is the position of the
\* opening bracket (0 for a name outside any library); 'lib' is what name
\* holds after the brackets were overwritten, 'objn' the returned member name
splitName(name) ==
    IF Len(name) > 0 /\ name[Len(name)] = "]"
    THEN IF strrchr(name, "[") = 0
         THEN [ok |-> FALSE, po |-> 0, lib |-> name, objn |-> <<>>]
         ELSE [ok |-> TRUE, po |-> strrchr(name, "["),
               lib |-> SubSeq(name, 1, strrchr(name, "[") - 1),
               objn |-> SubSeq(name, strrchr(name, "[") + 1, Len(name) - 1)]
    ELSE [ok |-> TRUE, po |-> 0, lib |-> name, objn |-> name]

\* the loop over the list of libraries in libAddObj and fileListFind: the
\* first library called libname, NOLIB if there is none
libFind(libs, libname) ==
    IF \E l \in 1..Len(libs) : strcmp(libs[l], libname) = 0
    THEN CHOOSE l \in 1..Len(libs) :
            /\ strcmp(libs[l], libname) = 0
            /\ \A k \in 1..(l - 1) : strcmp(libs[k], libname) # 0
    ELSE NOLIB

\* libAddObj / createLib: the list of libraries once libname was looked up
libAddObj(libs, libname) ==
    IF libFind(libs, libname) = NOLIB THEN Append(libs, libname) ELSE libs

\* what ends the process in createObj(name), "none" if nothing does
createFault(name) ==
    IF ~splitName(name).ok THEN "createObj: ill-formed name"
    ELSE IF /\ splitName(name).po # 0
            /\ \E o \in Objs :
                  /\ fileLib[o] # NOLIB
                  /\ fileLib[o] = libFind(libList, splitName(name).lib)
                  /\ strcmp(fileName[o], splitName(name).objn) = 0
    THEN "libAddObj: strcmp(l->files[i]->name, obj->name)"
    ELSE "none"

\* the object name scan_file substitutes for symbols without object file
SubstName(name) ==
    IF strrchr(name, ".") = 0
         \/ (strchr(name, "/") # 0 /\ strchr(name, "/") > strrchr(name, "."))
    THEN name \o <<".", "o">>
    ELSE SubSeq(name, 1, strrchr(name, ".")) \o <<"o">>

\* the inputs' names where the specification does not choose them: the
\* header line of the k-th object reads "a.o", "aa.o", ..., and an input
\* file that begins with symbols of what becomes the k-th object is called
\* "a", "aa", ...
NmFile(k) == [i \in 1..k |-> "a"]
PlainName(k) == NmFile(k) \o <<".", "o">>

(* ------------------------------ XRef lists ----------------------------- *)
\* the Xref record an export / import pointer designates
ExRec(ex, x) == ex[x[1]][x[2]]

\* XREF_NEXT chased from x: the list as a sequence of pointers.  'fuel'
\* bounds the chase so that a cyclic chain cannot make it run forever.
RECURSIVE Chain(_, _, _)
Chain(arr, x, fuel) ==
    IF x = NILX \/ fuel = 0 THEN <<>>
    ELSE <<x>> \o Chain(arr, ExRec(arr, x).next, fuel - 1)

MaxChain == (MaxObjs + 1) * (MaxRefs + NumSyms) + 1

ExporterList(st, s) == Chain(st.exports, st.symTbl[s].exportedBy, MaxChain)
ImporterList(st, s) == Chain(st.imports, st.symTbl[s].importedFrom, MaxChain)

NewXref(s, o, w) == [sym |-> s, obj |-> o, weak |-> w, next |-> NILX]

(* ------------------------------ fixupObj ------------------------------- *)
\* a variant of FixupOne that puts export i of f at the head of the
\* exporter list of its symbol
FixupOneHead(st, f, i) ==
    [st EXCEPT !.exports[f][i].next = st.symTbl[st.exports[f][i].sym].exportedBy,
               !.symTbl[st.exports[f][i].sym].exportedBy = <<f, i>>]

\* one iteration of fixupObj's loop: export i of f is appended to the
\* exporter list of its symbol
FixupOne(st, f, i) ==
    LET s == st.exports[f][i].sym
        ex == <<f, i>>
        lst == ExporterList(st, s)
    IN  IF st.symTbl[s].exportedBy # NILX
        THEN LET etmp == lst[Len(lst)]
             IN  [st EXCEPT !.exports[etmp[1]][etmp[2]].next = ex]
        ELSE [st EXCEPT !.symTbl[s].exportedBy = ex]

RECURSIVE FixupFrom(_, _, _)
FixupFrom(st, f, i) ==
    IF i > Len(st.exports[f]) THEN st
    ELSE FixupFrom(FixupOne(st, f, i), f, i + 1)

fixupObj(st, f) == IF f = NIL THEN st ELSE FixupFrom(st, f, 1)

(* ------------------------------ scan_file ------------------------------ *)
ScanSt == [symTbl |-> symTbl, exports |-> exports, imports |-> imports]

\* createObj: the new object is appended to the list of all objects
createObj(name) ==
    /\ nobj' = nobj + 1
    /\ link' = [o \in 0..(nobj + 1) |->
                  IF o \in Objs THEN link[o] ELSE [anchor |-> NoSet, next |-> NIL]]
    /\ work' = [o \in 0..(nobj + 1) |-> IF o \in Objs THEN work[o] ELSE NIL]
    /\ fileName' = [o \in 0..(nobj + 1) |->
                      IF o \in Objs THEN fileName[o] ELSE splitName(name).objn]
    /\ libList' = IF splitName(name).po # 0
                  THEN libAddObj(libList, splitName(name).lib) ELSE libList
    /\ fileLib' = [o \in 0..(nobj + 1) |->
                     IF o \in Objs THEN fileLib[o]
                     ELSE IF splitName(name).po # 0
                     THEN libFind(libAddObj(libList, splitName(name).lib),
                                  splitName(name).lib)
                     ELSE NOLIB]
    /\ UNCHANGED fileListIndex

\* exit(1) or a failed assertion in createObj(name)
createAbort(name) ==
    /\ pc' = "aborted"
    /\ abort' = createFault(name)
    /\ UNCHANGED <<nfile, curObj, nobj, lastAppObj, symTbl, exports, imports, link,
                   lset, work, linkLog, last, files, warn>>

Grown(arr) == [o \in 0..(nobj + 1) |-> IF o \in Objs THEN arr[o] ELSE <<>>]

\* case 1 of scan_file: an object header line
ScanHeader(name) ==
    /\ pc = "scan"
    /\ nfile < MaxFiles
    /\ nobj < MaxObjs
    /\ IF createFault(name) # "none" THEN createAbort(name)
       ELSE /\ LET st == fixupObj(ScanSt, curObj)
               IN  /\ symTbl' = st.symTbl
                   /\ exports' = Grown(st.exports)
                   /\ imports' = Grown(st.imports)
            /\ createObj(name)
            /\ curObj' = nobj + 1
            /\ warn' = FALSE
            /\ UNCHANGED <<pc, nfile, lastAppObj, lset, linkLog, last, abort>>

\* scan_file's 'warn' for a record of type t of symbol s: the symbol is known
\* under another type and neither type is 'U'
TypeWarn(s, t) ==
    /\ s \in DOMAIN symTbl
    /\ t # symTbl[s].type
    /\ "U" # symTbl[s].type /\ "U" # t

\* a scan that stores the type of the record read last
SymTypeLast(s, t) == t

\* the type stored for symbol s once a record of type t was read
SymType(s, t) ==
    IF s \notin DOMAIN symTbl THEN t
    ELSE IF t # symTbl[s].type /\ symTbl[s].type = "U" THEN t
    ELSE symTbl[s].type

Interned(s, t) ==
    IF s \in DOMAIN symTbl
    THEN [symTbl EXCEPT ![s].type = SymType(s, t)]
    ELSE [n \in (DOMAIN symTbl) \cup {s} |->
            IF n = s THEN [type |-> t, exportedBy |-> NILX, importedFrom |-> NILX]
            ELSE symTbl[n]]

\* the symbol lines read so far
RECURSIVE RecsFrom(_)
RecsFrom(o) == IF o > nobj THEN 0
               ELSE Len(exports[o]) + Len(imports[o]) + RecsFrom(o + 1)

\* scan_file at 'bail': the scan fails and main exits
scanBail ==
    /\ pc' = "aborted"
    /\ abort' = "scan_file: Unknown symbol type"
    /\ UNCHANGED <<nfile, curObj, nobj, lastAppObj, symTbl, exports, imports, link,
                   lset, work, linkLog, last, files>>

\* case 2 of scan_file: a symbol line 'name type'; force is the -f option
ScanSym(s, t, force) ==
    /\ pc = "scan"
    /\ nfile < MaxFiles
    /\ RecsFrom(1) < MaxRecs
    /\ warn' = TypeWarn(s, t)
    /\ IF t = "?" /\ ~force THEN scanBail
       ELSE /\ IF curObj = NIL
               THEN \* symbol without object file: an object named after the
                    \* input (a name without brackets, which createObj
                    \* always accepts)
                    /\ nobj < MaxObjs
                    /\ createObj(SubstName(NmFile(nobj + 1)))
                    /\ curObj' = nobj + 1
               ELSE /\ Len(exports[curObj]) + Len(imports[curObj]) < MaxRefs
                    /\ UNCHANGED <<nobj, link, work, curObj, files>>
            /\ symTbl' = Interned(s, t)
            /\ LET obj == curObj'
                   ex == IF curObj = NIL THEN Grown(exports) ELSE exports
                   im == IF curObj = NIL THEN Grown(imports) ELSE imports
               IN  IF t \in ExportTypes
                   THEN /\ exports' = [ex EXCEPT ![obj] = Append(@, NewXref(s, obj, t = "W"))]
                        /\ imports' = im
                   ELSE /\ imports' = [im EXCEPT ![obj] = Append(@, NewXref(s, obj, FALSE))]
                        /\ exports' = ex
            /\ UNCHANGED <<pc, nfile, lastAppObj, lset, linkLog, last, abort>>

\* end of an input file: scan_file returns, main records lastAppObj
ScanEOF ==
    /\ pc = "scan"
    /\ nfile < MaxFiles
    /\ LET st == fixupObj(ScanSt, curObj)
       IN  /\ symTbl' = st.symTbl
           /\ exports' = st.exports
           /\ imports' = st.imports
    /\ curObj' = NIL
    /\ nfile' = nfile + 1
    /\ lastAppObj' = IF lastAppObj = NIL THEN nobj ELSE lastAppObj
    /\ warn' = FALSE
    /\ UNCHANGED <<pc, nobj, link, lset, work, linkLog, last, abort, files>>

(* ------------------------ gatherDanglingUndefs ------------------------- *)
RECURSIVE gatherFrom(_, _)
gatherFrom(st, s) ==
    IF s > NumSyms THEN st
    ELSE IF s \in DOMAIN st.symTbl /\ st.symTbl[s].exportedBy = NILX
         THEN gatherFrom([st EXCEPT !.exports[undefSymPod] =
                              Append(@, NewXref(s, undefSymPod, FALSE))], s + 1)
         ELSE gatherFrom(st, s + 1)

\* a variant of gatherDanglingUndefs that leaves out the fixup of undefSymPod
gatherDanglingUndefsNoFixup(st) == gatherFrom(st, 1)

gatherDanglingUndefs(st) == fixupObj(gatherFrom(st, 1), undefSymPod)

(* -------------------------- fileListBuildIndex ------------------------- *)
\* the ObjFRec of object o, as objcmp reads it
ObjRec(o) == [name |-> fileName[o], lib |-> fileLib[o]]

objcmp(obja, objb) ==
    IF strcmp(obja.name, objb.name) # 0 THEN strcmp(obja.name, objb.name)
    ELSE IF obja.lib = MATCH_ANY \/ objb.lib = MATCH_ANY THEN 0
    ELSE IF obja.lib # NOLIB
    THEN IF objb.lib # NOLIB THEN strcmp(libList[obja.lib], libList[objb.lib])
         ELSE 1
    ELSE IF objb.lib # NOLIB THEN -1 ELSE 0

\* qsort with objcmp: every arrangement of the objects S in which no object
\* comes after one that objcmp puts behind it (which arrangement of objects
\* that compare equal is up to the library)
RECURSIVE qsort(_)
qsort(S) ==
    IF S = {} THEN {<<>>}
    ELSE UNION {{<<m>> \o q : q \in qsort(S \ {m})} :
                m \in {x \in S : \A y \in S : objcmp(ObjRec(y), ObjRec(x)) >= 0}}

fileListBuildIndex == qsort(Objs)

\* main between the scan loop and the link driver: gatherDanglingUndefs,
\* then fileListBuildIndex
Gather ==
    /\ pc = "scan"
    /\ nfile >= 1
    /\ curObj = NIL
    /\ LET st == gatherDanglingUndefs(ScanSt)
       IN  /\ symTbl' = st.symTbl
           /\ exports' = st.exports
           /\ imports' = st.imports
    /\ fileListIndex' \in fileListBuildIndex
    /\ pc' = "gathered"
    /\ warn' = FALSE
    /\ UNCHANGED <<nfile, curObj, nobj, lastAppObj, link, lset, work, linkLog,
                   last, abort, fileName, fileLib, libList>>

(* ------------------------------- linkObj ------------------------------- *)
LinkSt == [symTbl |-> symTbl, exports |-> exports, imports |-> imports,
           link |-> link, lset |-> lset, log |-> linkLog, abort |-> abort]

\* variants of LinkDep that resolve an import differently: to the owner of
\* the last entry of the exporter list, and to the owner of the first entry
\* that is not weak (the first entry if all are weak)
LinkDepLast(st, s) ==
    LET lst == ExporterList(st, s) IN ExRec(st.exports, lst[Len(lst)]).obj

LinkDepStrong(st, s) ==
    LET lst == ExporterList(st, s)
        strong == {k \in 1..Len(lst) : ~ExRec(st.exports, lst[k]).weak}
    IN  IF strong = {} THEN ExRec(st.exports, lst[1]).obj
        ELSE ExRec(st.exports, lst[CHOOSE k \in strong : \A j \in strong : k <= j]).obj

\* the object linkObj recurses into because of symbol s
LinkDep(st, s) == ExRec(st.exports, st.symTbl[s].exportedBy).obj

\* an object list, chased from f along link.next
RECURSIVE ObjChain(_, _, _)
ObjChain(lk, f, fuel) ==
    IF f = NIL \/ fuel = 0 THEN <<>>
    ELSE <<f>> \o ObjChain(lk, lk[f].next, fuel - 1)

\* a variant that appends f at the tail of the object list of its link set
linkInsertTail(st, f) ==
    LET q == ObjChain(st.link, st.lset[st.link[f].anchor], nobj + 2)
    IN  IF q = <<>>
        THEN [st EXCEPT !.link[f].next = NIL, !.lset[st.link[f].anchor] = f]
        ELSE [st EXCEPT !.link[f].next = NIL, !.link[q[Len(q)]].next = f]

\* the end of linkObj: f is inserted at the head of the object list of its
\* link set
linkInsert(st, f) ==
    [st EXCEPT !.link[f].next = st.lset[st.link[f].anchor],
               !.lset[st.link[f].anchor] = f]

\* a variant of linkObj that puts f in the list of its link set and leaves
\* its imports alone
linkObjAlone(st, f) == IF st.abort # "none" THEN st ELSE linkInsert(st, f)

RECURSIVE linkObjFrom(_, _, _)
linkObj(st, f) == linkObjFrom(st, f, 1)

linkObjFrom(st, f, i) ==
    IF st.abort # "none" THEN st
    ELSE IF i > Len(st.imports[f])
    THEN linkInsert(st, f)
    ELSE LET imp == <<f, i>>
             s == st.imports[f][i].sym
         IN  IF st.imports[f][i].next # NILX
             THEN [st EXCEPT !.abort = "linkObj: 0 == XREF_NEXT(imp)"]
             ELSE
             LET st1 == [st EXCEPT !.imports[f][i].next = st.symTbl[s].importedFrom,
                                   !.symTbl[s].importedFrom = imp]
             IN  IF st1.symTbl[s].exportedBy = NILX
                 THEN linkObjFrom(st1, f, i + 1)
                 ELSE LET dep == LinkDep(st1, s)
                      IN  IF st1.link[f].anchor # NoSet /\ st1.link[dep].anchor = NoSet
                          THEN LET st2 == [st1 EXCEPT
                                             !.link[dep].anchor = st1.link[f].anchor,
                                             !.log = Append(@, [from |-> f, sym |-> s,
                                                                obj |-> dep])]
                               IN  linkObjFrom(linkObj(st2, dep), f, i + 1)
                          ELSE linkObjFrom(st1, f, i + 1)

\* the loop of main() over fileListFirst() ... ; ls is the local 'linkSet'
RECURSIVE linkDriverFrom(_, _, _)
linkDriverFrom(st, f, ls) ==
    IF f > nobj THEN st
    ELSE LET st1 == IF st.link[f].anchor = NoSet
                    THEN linkObj([st EXCEPT !.link[f].anchor = ls], f)
                    ELSE st
         IN  linkDriverFrom(st1, f + 1,
                            IF f = lastAppObj THEN optionalLinkSet ELSE ls)

LinkDriver ==
    /\ pc = "gathered"
    /\ LET st == linkDriverFrom(LinkSt, 1, appLinkSet)
       IN  /\ symTbl' = st.symTbl
           /\ imports' = st.imports
           /\ link' = st.link
           /\ lset' = st.lset
           /\ linkLog' = st.log
           /\ abort' = st.abort
           /\ pc' = IF st.abort = "none" THEN "linked" ELSE "aborted"
    /\ UNCHANGED <<nfile, curObj, nobj, lastAppObj, exports, work, last, files, warn>>

(* ------------------------------- depwalk ------------------------------- *)
\* mode bits (ldep.c:151-153)
WALK_BUILD_LIST == 1
WALK_EXPORTS == 2
WALK_IMPORTS == 0
BuildList(mode) == mode % 2 = 1
DO_EXPORTS(mode) == (mode \div 2) % 2 = 1

\* the state a walk works on: the scratch slots, the engine's static
\* depwalkMode / depwalkAction, the calls made to the visitor, and the
\* assertion that failed, if one did
WalkSt == [work |-> work, mode |-> 0, action |-> FALSE, out |-> <<>>,
           abort |-> abort]

\* the objects workListIterate presents, in order: f, f->work, ... up to
\* the first NIL or BUSY slot ('fuel' objects at most)
RECURSIVE WorkList(_, _, _)
WorkList(wk, f, fuel) ==
    IF f = NIL \/ f = BUSY \/ fuel = 0 THEN <<>>
    ELSE <<f>> \o WorkList(wk, wk[f], fuel - 1)

\* workListIterate comes to an end only if the chain of work slots does
WorkListEnds(wk, f) == Len(WorkList(wk, f, nobj + 2)) <= nobj + 1

\* a variant of workListIterate that presents the head of the list only
workListIterateHead(wk, f) == <<f>>

workListIterate(wk, f) == WorkList(wk, f, nobj + 2)

checkCircWorkList(wk, f) ==
    LET wl == workListIterate(wk, f)
    IN  IF \E d \in 2..Len(wl) : wl[d] = f THEN -1 ELSE 0

\* a variant of WalkRefs that follows every exporter of an imported symbol
WalkRefsAll(g, mode, f, i) ==
    IF DO_EXPORTS(mode)
    THEN ImporterList(g, g.exports[f][i].sym)
    ELSE ExporterList(g, g.imports[f][i].sym)

\* the cross references depwalk_rec follows for slot i of f
WalkRefs(g, mode, f, i) ==
    IF DO_EXPORTS(mode)
    THEN ImporterList(g, g.exports[f][i].sym)
    ELSE LET r == g.symTbl[g.imports[f][i].sym].exportedBy
         IN  IF r = NILX THEN <<>> ELSE <<r>>

RefObj(g, mode, ref) ==
    IF DO_EXPORTS(mode) THEN ExRec(g.imports, ref).obj ELSE ExRec(g.exports, ref).obj

WalkSlots(g, mode, f) ==
    IF DO_EXPORTS(mode) THEN Len(g.exports[f]) ELSE Len(g.imports[f])

RECURSIVE depwalk_rec(_, _, _, _), walkSlot(_, _, _, _, _), walkRef(_, _, _, _, _, _)
RECURSIVE walkInto(_, _, _, _, _, _, _)
\* a variant of depwalk_rec that calls the visitor for the start object only
depwalk_recTop(g, st, f, depth) ==
    IF st.abort # "none" THEN st
    ELSE walkSlot(g, IF st.action /\ depth = 0 THEN [st EXCEPT !.out = Append(@, <<f, depth>>)]
                     ELSE st, f, depth, 1)

depwalk_rec(g, st, f, depth) ==
    IF st.abort # "none" THEN st
    ELSE walkSlot(g, IF st.action THEN [st EXCEPT !.out = Append(@, <<f, depth>>)]
                     ELSE st, f, depth, 1)

\* the outer loop of depwalk_rec, from slot i on
walkSlot(g, st, f, depth, i) ==
    IF st.abort # "none" \/ i > WalkSlots(g, st.mode, f) THEN st
    ELSE walkSlot(g, walkRef(g, st, f, depth, WalkRefs(g, st.mode, f, i), 1),
                  f, depth, i + 1)

\* the inner loop of depwalk_rec, from the k-th cross reference on
walkRef(g, st, f, depth, refs, k) ==
    IF st.abort # "none" \/ k > Len(refs) THEN st
    ELSE walkInto(g, st, f, depth, refs, k, RefObj(g, st.mode, refs[k]))

\* after the recursive call for o: a direct walk takes o off the list again
walkBack(st, f, o) ==
    IF st.abort = "none" /\ ~BuildList(st.mode)
    THEN [st EXCEPT !.work[f] = st.work[o], !.work[o] = NIL]
    ELSE st

\* o was put on the work list after f: the checks, then the recursive call
walkMarked(g, st, f, depth, o) ==
    IF ~WorkListEnds(st.work, f)
    THEN [st EXCEPT !.abort = "workListIterate: no end"]
    ELSE IF checkCircWorkList(st.work, f) # 0
    THEN [st EXCEPT !.abort = "depwalk_rec: 0 == checkCircWorkList(f)"]
    ELSE walkBack(depwalk_rec(g, st, o, depth + 1), f, o)

\* the body of the inner loop for the cross reference to object o
walkInto(g, st, f, depth, refs, k, o) ==
    IF o = f THEN [st EXCEPT !.abort = "depwalk_rec: ref->obj != f"]
    ELSE IF st.work[o] # NIL
    THEN walkRef(g, st, f, depth, refs, k + 1)
    ELSE walkRef(g, walkMarked(g, [st EXCEPT !.work[o] = st.work[f], !.work[f] = o],
                               f, depth, o),
                 f, depth, refs, k + 1)

\* the end of depwalk: a direct walk clears the slot of f, a BUILD_LIST walk
\* restores depwalkAction for depwalkListRelease
depwalkEnd(st, f, action) ==
    IF st.abort # "none" THEN st
    ELSE IF BuildList(st.mode) THEN [st EXCEPT !.action = action]
    ELSE [st EXCEPT !.work[f] = NIL]

depwalk(g, st, f, action, mode) ==
    IF st.abort # "none" THEN st
    ELSE IF st.work[f] # NIL THEN [st EXCEPT !.abort = "depwalk: f->work == 0"]
    ELSE IF BuildList(st.mode)
    THEN [st EXCEPT !.abort = "depwalk: !(depwalkMode & WALK_BUILD_LIST)"]
    ELSE depwalkEnd(depwalk_rec(g, [st EXCEPT !.mode = mode,
                                              !.action = IF BuildList(mode) THEN FALSE
                                                         ELSE action,
                                              !.work[f] = BUSY],
                                f, 0),
                    f, action)

\* a variant of workListRelease that clears the slot of the list head only
workListReleaseHead(wk, f, fuel) == [wk EXCEPT ![f] = NIL]

RECURSIVE workListRelease(_, _, _)
workListRelease(wk, f, fuel) ==
    IF fuel = 0 THEN wk
    ELSE LET tmp == wk[f]
             wk1 == [wk EXCEPT ![f] = NIL]
         IN  IF tmp # NIL /\ tmp # BUSY THEN workListRelease(wk1, tmp, fuel - 1)
             ELSE wk1

\* the deferred visitor's calls: workListIterate numbers them from 0
RECURSIVE Visits(_, _)
Visits(wl, d) == IF d > Len(wl) THEN <<>> ELSE <<(<<wl[d], d - 1>>)>> \o Visits(wl, d + 1)

depwalkListRelease(st, f) ==
    IF st.abort # "none" THEN st
    ELSE IF ~BuildList(st.mode)
    THEN [st EXCEPT !.abort = "depwalkListRelease: depwalkMode & WALK_BUILD_LIST"]
    ELSE IF ~WorkListEnds(st.work, f)
    THEN [st EXCEPT !.abort = "workListIterate: no end"]
    ELSE [st EXCEPT !.out = IF st.action
                            THEN @ \o Visits(workListIterate(st.work, f), 1) ELSE @,
                    !.work = workListRelease(st.work, f, nobj + 2),
                    !.mode = 0]

(* ------------------------------- unlink -------------------------------- *)
\* the state an operation run after the link driver works on
OpSt == [symTbl |-> symTbl, exports |-> exports, imports |-> imports,
         link |-> link, lset |-> lset, work |-> work, mode |-> last.mode,
         action |-> FALSE, out |-> <<>>, abort |-> abort,
         reject |-> FALSE, wl |-> <<>>]

\* the object list of link set ls
SetList(st, ls) == ObjChain(st.link, st.lset[ls], nobj + 2)

\* position of e in sequence q, 0 if it is not there
Pos(q, e) == IF \E k \in 1..Len(q) : q[k] = e
             THEN CHOOSE k \in 1..Len(q) : q[k] = e /\ \A j \in 1..(k - 1) : q[j] # e
             ELSE 0

\* variants of doUnlinkImport: one takes the last entry of the importer
\* list out instead of import i of f, one leaves the next field of the
\* import set
doUnlinkImportLast(st, f, i) ==
    LET s == st.imports[f][i].sym
        lst == ImporterList(st, s)
        n == Len(lst)
    IN  IF n = 0 THEN [st EXCEPT !.abort = "doUnlink: assert(p)"]
        ELSE IF n = 1 THEN [st EXCEPT !.symTbl[s].importedFrom = NILX]
        ELSE [st EXCEPT !.imports[lst[n - 1][1]][lst[n - 1][2]].next = NILX]

doUnlinkImportKeepNext(st, f, i) ==
    LET imp == <<f, i>>
        s == st.imports[f][i].sym
        lst == ImporterList(st, s)
        k == Pos(lst, imp)
        nxt == st.imports[f][i].next
    IN  IF st.symTbl[s].importedFrom = imp
        THEN [st EXCEPT !.symTbl[s].importedFrom = nxt]
        ELSE IF k = 0
        THEN [st EXCEPT !.abort = "doUnlink: assert(p)"]
        ELSE LET p == lst[k - 1]
             IN  [st EXCEPT !.imports[p[1]][p[2]].next = nxt]

\* one iteration of doUnlink's loop: import i of f leaves the importer list
doUnlinkImport(st, f, i) ==
    LET imp == <<f, i>>
        s == st.imports[f][i].sym
        lst == ImporterList(st, s)
        k == Pos(lst, imp)
        nxt == st.imports[f][i].next
    IN  IF st.symTbl[s].importedFrom = imp
        THEN [st EXCEPT !.symTbl[s].importedFrom = nxt, !.imports[f][i].next = NILX]
        ELSE IF k = 0
        THEN [st EXCEPT !.abort = "doUnlink: assert(p)"]
        ELSE LET p == lst[k - 1]
             IN  [st EXCEPT !.imports[p[1]][p[2]].next = nxt,
                            !.imports[f][i].next = NILX]

RECURSIVE doUnlinkFrom(_, _, _)
doUnlinkFrom(st, f, i) ==
    IF st.abort # "none" \/ i > Len(st.imports[f]) THEN st
    ELSE doUnlinkFrom(doUnlinkImport(st, f, i), f, i + 1)

\* a variant of doUnlinkSet that clears the link set handle of f and leaves
\* f in the object list
doUnlinkSetKeep(st, f) ==
    IF st.abort # "none" THEN st
    ELSE IF st.link[f].anchor = NoSet
    THEN [st EXCEPT !.abort = "doUnlink: f->link.anchor is NULL"]
    ELSE [st EXCEPT !.link[f].anchor = NoSet]

\* a variant of doUnlinkSet that makes the list of f's link set start at the
\* successor of f, wherever f stands in it
doUnlinkSetHead(st, f) ==
    IF st.abort # "none" THEN st
    ELSE IF st.link[f].anchor = NoSet
    THEN [st EXCEPT !.abort = "doUnlink: f->link.anchor is NULL"]
    ELSE [st EXCEPT !.lset[st.link[f].anchor] = st.link[f].next,
                    !.link[f] = [anchor |-> NoSet, next |-> NIL]]

\* the second half of doUnlink: f leaves the object list of its link set
doUnlinkSet(st, f) ==
    IF st.abort # "none" THEN st
    ELSE IF st.link[f].anchor = NoSet
    THEN [st EXCEPT !.abort = "doUnlink: f->link.anchor is NULL"]
    ELSE LET ls == st.link[f].anchor
             lst == SetList(st, ls)
             k == Pos(lst, f)
         IN  IF k = 0 THEN [st EXCEPT !.abort = "doUnlink: assert(*pl)"]
             ELSE IF k = 1
             THEN [st EXCEPT !.lset[ls] = st.link[f].next,
                             !.link[f] = [anchor |-> NoSet, next |-> NIL]]
             ELSE [st EXCEPT !.link[lst[k - 1]].next = st.link[f].next,
                             !.link[f] = [anchor |-> NoSet, next |-> NIL]]

doUnlink(st, f) == doUnlinkSet(doUnlinkFrom(st, f, 1), f)

\* a variant of checkSysLinkSet that guards the Optional link set instead
checkSysLinkSetOptional(st, f) == st.link[f].anchor = optionalLinkSet

checkSysLinkSet(st, f) == st.link[f].anchor = appLinkSet

checkSanity(st, f) ==
    IF st.abort # "none" THEN st
    ELSE IF \E i \in 1..Len(st.exports[f]) :
                st.symTbl[st.exports[f][i].sym].importedFrom # NILX
    THEN [st EXCEPT !.abort = "checkSanity: importedFrom == 0"]
    ELSE st

\* a variant of IterDoUnlink that unlinks the first object of the work list
\* only
IterDoUnlinkHead(st, wl, k) ==
    IF k > Len(wl) THEN st ELSE doUnlink(st, wl[k])

\* workListIterate(f, action, 0) for the two mutating visitors
RECURSIVE IterDoUnlink(_, _, _), IterCheckSanity(_, _, _)
IterDoUnlink(st, wl, k) ==
    IF k > Len(wl) THEN st ELSE IterDoUnlink(doUnlink(st, wl[k]), wl, k + 1)
IterCheckSanity(st, wl, k) ==
    IF k > Len(wl) THEN st ELSE IterCheckSanity(checkSanity(st, wl[k]), wl, k + 1)

\* unlinkObj after the walk: wl is the work list the walk built from f
unlinkObjList(st, f, wl) ==
    [depwalkListRelease(
        IF \E k \in 1..Len(wl) : checkSysLinkSet(st, wl[k]) THEN st
        ELSE IterCheckSanity(IterDoUnlink(st, wl, 1), wl, 1), f)
     EXCEPT !.reject = \E k \in 1..Len(wl) : checkSysLinkSet(st, wl[k]),
            !.wl = wl]

unlinkObjWalked(st, f) ==
    IF st.abort # "none" THEN st
    ELSE unlinkObjList(st, f, workListIterate(st.work, f))

unlinkObj(st, f) ==
    unlinkObjWalked(depwalk(st, st, f, FALSE, WALK_EXPORTS + WALK_BUILD_LIST), f)

\* the owner of import Xref x
ImpObj(st, x) == ExRec(st.imports, x).obj

TotalImports(st) ==
    LET RECURSIVE sum(_)
        sum(o) == IF o > nobj THEN 0 ELSE Len(st.imports[o]) + sum(o + 1)
    IN  sum(0)

\* the first loop of unlinkUndefs for symbol s: unlink the owner of the
\* head of the importer list until the list is empty or an unlink is rejected
RECURSIVE undefsHead(_, _, _), undefsHeadNext(_, _, _)
undefsHead(st, s, fuel) ==
    IF st.abort # "none" THEN st
    ELSE IF fuel = 0 THEN [st EXCEPT !.abort = "unlinkUndefs: no end"]
    ELSE IF st.symTbl[s].importedFrom = NILX THEN [st EXCEPT !.reject = FALSE]
    ELSE undefsHeadNext(unlinkObj(st, ImpObj(st, st.symTbl[s].importedFrom)), s, fuel)

undefsHeadNext(st, s, fuel) ==
    IF st.abort # "none" \/ st.reject THEN st ELSE undefsHead(st, s, fuel - 1)

\* the do-while loop of unlinkUndefs: p is an importer whose unlink was rejected
RECURSIVE undefsSkip(_, _, _), undefsSkipNext(_, _, _, _)
undefsSkip(st, p, fuel) ==
    IF st.abort # "none" THEN st
    ELSE IF fuel = 0 THEN [st EXCEPT !.abort = "unlinkUndefs: no end"]
    ELSE IF ExRec(st.imports, p).next = NILX THEN st
    ELSE undefsSkipNext(unlinkObj(st, ImpObj(st, ExRec(st.imports, p).next)),
                        p, ExRec(st.imports, p).next, fuel)

\* n is the importer after p; the unlink of its owner has been tried
undefsSkipNext(st, p, n, fuel) ==
    IF st.abort # "none" THEN st
    ELSE IF st.reject THEN undefsSkip(st, n, fuel - 1)
    ELSE undefsSkip(st, p, fuel - 1)

UndefsFuel(st) == 3 * TotalImports(st) + 3

\* the importers of s left by the first loop, if any, go through the second
undefsRest(st, s, fuel) ==
    IF st.abort = "none" /\ st.symTbl[s].importedFrom # NILX
    THEN undefsSkip(st, st.symTbl[s].importedFrom, fuel)
    ELSE st

RECURSIVE unlinkUndefsFrom(_, _)
unlinkUndefsFrom(st, i) ==
    IF st.abort # "none" \/ i > Len(st.exports[undefSymPod]) THEN st
    ELSE unlinkUndefsFrom(
            undefsRest(undefsHead(st, st.exports[undefSymPod][i].sym, UndefsFuel(st)),
                       st.exports[undefSymPod][i].sym, UndefsFuel(st)),
            i + 1)

unlinkUndefs(st) == unlinkUndefsFrom(st, 1)

(* ----------------------------- diagnostics ----------------------------- *)
\* a BUILD_LIST walk with visitor depPrint, then the release of its list
\* a variant of walkAndRelease that leaves out depwalkListRelease
walkNoRelease(st, f, mode) == depwalk(st, st, f, TRUE, mode + WALK_BUILD_LIST)

walkAndRelease(st, f, mode) ==
    depwalkListRelease(depwalk(st, st, f, TRUE, mode + WALK_BUILD_LIST), f)

RECURSIVE trackImporters(_, _)
trackImporters(st, imps) ==
    IF imps = <<>> THEN st
    ELSE trackImporters(walkAndRelease(st, ImpObj(st, Head(imps)), WALK_EXPORTS),
                        Tail(imps))

\* the second half of trackSym: the walks from the importers of s
trackSymImporters(st, s) == trackImporters(st, ImporterList(st, s))

trackSym(st, s) ==
    trackSymImporters(
        IF st.symTbl[s].exportedBy # NILX
           /\ Len(st.imports[ExRec(st.exports, st.symTbl[s].exportedBy).obj]) # 0
        THEN walkAndRelease(st, ExRec(st.exports, st.symTbl[s].exportedBy).obj,
                            WALK_IMPORTS)
        ELSE st, s)

trackObj(st, f) ==
    walkAndRelease(walkAndRelease(st, f, WALK_EXPORTS), f, WALK_IMPORTS)

\* the -d loop of main: the flat dependency list of every object
RECURSIVE showDepsFrom(_, _)
showDepsFrom(st, f) ==
    IF f > nobj THEN st
    ELSE showDepsFrom(walkAndRelease(st, f, WALK_EXPORTS), f + 1)

\* checkMultipleDefs: 'out' collects the symbols reported as name clashes,
\* one entry per report
MarkBusy(st, xs) ==
    [st EXCEPT !.work = [o \in Objs |->
        IF \E k \in 1..Len(xs) : ExRec(st.exports, xs[k]).obj = o THEN BUSY ELSE @[o]]]

RECURSIVE multDefsExports(_, _, _)
multDefsExports(st, f, i) ==
    IF i > Len(st.exports[f]) THEN st
    ELSE LET s == st.exports[f][i].sym
             lst == ExporterList(st, s)
             isCommon == st.symTbl[s].type = "C"
         IN  IF Len(lst) > 1
             THEN multDefsExports(
                    MarkBusy(IF isCommon THEN st ELSE [st EXCEPT !.out = Append(@, s)],
                             lst), f, i + 1)
             ELSE multDefsExports(st, f, i + 1)

RECURSIVE multDefsObjs(_, _, _)
multDefsObjs(st, lst, k) ==
    IF k > Len(lst) THEN st
    ELSE IF st.work[lst[k]] = BUSY THEN multDefsObjs(st, lst, k + 1)
    ELSE multDefsObjs(multDefsExports(st, lst[k], 1), lst, k + 1)

checkMultipleDefs(st, ls) ==
    LET st1 == multDefsObjs(st, SetList(st, ls), 1)
    IN  [st1 EXCEPT !.work = [o \in Objs |-> NIL]]

(* ------------------- operations run after the link driver -------------- *)
\* the operations whose output (the visitor's calls, the symbols reported)
\* is kept in full
Observed == {"checkMultipleDefs", "depwalk", "listwalk", "writeScript"}

\* what is kept of an operation: its name and argument, the verdict and
\* work list of unlinkObj, the number of calls made to the visitor depPrint
OpRec(op, arg, st) ==
    [op |-> op, arg |-> arg,
     reject |-> op = "unlinkObj" /\ st.reject,
     wl |-> IF op = "unlinkObj" THEN st.wl ELSE <<>>,
     calls |-> Len(st.out),
     out |-> IF op \in Observed THEN st.out ELSE <<>>,
     mode |-> st.mode]

\* the result of an operation becomes the state; a failed assertion ends
\* the process
Commit(st, op, arg) ==
    IF st.abort # "none"
    THEN /\ abort' = st.abort
         /\ pc' = "aborted"
         /\ last' = [op |-> op, arg |-> arg, reject |-> FALSE, wl |-> <<>>, calls |-> 0,
                      out |-> <<>>, mode |-> st.mode]
         /\ UNCHANGED <<symTbl, imports, link, lset, work>>
    ELSE /\ symTbl' = st.symTbl
         /\ imports' = st.imports
         /\ link' = st.link
         /\ lset' = st.lset
         /\ work' = st.work
         /\ last' = OpRec(op, arg, st)
         /\ UNCHANGED <<abort, pc>>

Frame == UNCHANGED <<nfile, curObj, nobj, lastAppObj, exports, linkLog, files,
                     warn>>

\* unlinkObj(f), as removeObjs calls it for a line that matches f alone
UnlinkObj(f) ==
    /\ pc = "linked"
    /\ Commit(unlinkObj(OpSt, f), "unlinkObj", f)
    /\ Frame

UnlinkUndefs ==
    /\ pc = "linked"
    /\ Commit(unlinkUndefs(OpSt), "unlinkUndefs", NIL)
    /\ Frame

ReadOnly(st, op) ==
    /\ Commit(st, op, NIL)
    /\ Frame

TrackSym(s) ==
    /\ pc = "linked"
    /\ s \in DOMAIN symTbl
    /\ ReadOnly(trackSym(OpSt, s), "trackSym")

TrackObj(f) ==
    /\ pc = "linked"
    /\ ReadOnly(trackObj(OpSt, f), "trackObj")

ShowDeps ==
    /\ pc = "linked"
    /\ ReadOnly(showDepsFrom(OpSt, 1), "showDeps")

CheckMultipleDefs(ls) ==
    /\ pc = "linked"
    /\ Commit(checkMultipleDefs(OpSt, ls), "checkMultipleDefs", ls)
    /\ Frame

\* a walk that calls its visitor directly (no WALK_BUILD_LIST)
DirectWalk(f, mode) ==
    /\ pc = "linked"
    /\ Commit(depwalk(OpSt, OpSt, f, TRUE, mode), "depwalk", <<f, mode>>)
    /\ Frame

\* a WALK_BUILD_LIST walk with visitor depPrint, then depwalkListRelease
ListWalk(f, mode) ==
    /\ pc = "linked"
    /\ Commit(walkAndRelease(OpSt, f, mode), "listwalk", <<f, mode>>)
    /\ Frame

(* ------------------------------ writeScript ---------------------------- *)
\* the EXTERN lines writeLinkSet prints for the objects objs: the object
\* whose export is named, and the symbol
RECURSIVE writeObjs(_, _)
writeObjs(st, objs) ==
    IF objs = <<>> THEN <<>>
    ELSE [n \in 1..Len(st.exports[Head(objs)]) |->
            <<Head(objs), st.exports[Head(objs)][n].sym>>]
         \o writeObjs(st, Tail(objs))

writeLinkSet(st, ls) == writeObjs(st, SetList(st, ls))

\* a variant of writeScript that always leaves out the Application set
writeScriptOptional(st, optionalOnly) ==
    [st EXCEPT !.out = writeLinkSet(st, optionalLinkSet)]

writeScript(st, optionalOnly) ==
    [st EXCEPT !.out = (IF optionalOnly THEN <<>> ELSE writeLinkSet(st, appLinkSet))
                       \o writeLinkSet(st, optionalLinkSet)]

\* the end of main: assert( 0 == checkObjPtrs() ), then writeScript(scrf,0)
mainScript(st) ==
    IF \E o \in Objs :
          \/ \E i \in 1..Len(st.exports[o]) : st.exports[o][i].obj # o
          \/ \E i \in 1..Len(st.imports[o]) : st.imports[o][i].obj # o
    THEN [st EXCEPT !.abort = "main: 0 == checkObjPtrs()"]
    ELSE writeScript(st, FALSE)

WriteScript ==
    /\ pc = "linked"
    /\ Commit(mainScript(OpSt), "writeScript", NIL)
    /\ Frame

(* ----------------------------- fileListFind ---------------------------- *)
\* the ObjFRec fileListFind searches for: 'ok' is FALSE where it returns 0
\* before searching (ill-formed name, library not registered)
FindKey(name) ==
    [ok |-> /\ splitName(name).ok
            /\ (splitName(name).po # 0 /\ splitName(name).lib # <<>>)
                  => libFind(libList, splitName(name).lib) # NOLIB,
     name |-> splitName(name).objn,
     lib |-> IF splitName(name).po # 0 /\ splitName(name).lib # <<>>
             THEN libFind(libList, splitName(name).lib)
             ELSE MATCH_ANY]

\* a variant of KeyCmp that compares the names only
KeyCmpName(key, p) == strcmp(key.name, fileName[fileListIndex[p]])

\* objcmp(&f, fileListIndex + p - 1)
KeyCmp(key, p) == objcmp(key, ObjRec(fileListIndex[p]))

\* bsearch over fileListIndex[lo..hi]: the positions a binary search can
\* return, 0 for the null pointer (which element it probes, and which of
\* several matching elements it returns, is up to the library)
RECURSIVE bsearch(_, _, _)
bsearch(key, lo, hi) ==
    IF lo > hi THEN {0}
    ELSE UNION {IF KeyCmp(key, m) = 0 THEN {m}
                ELSE IF KeyCmp(key, m) < 0 THEN bsearch(key, lo, m - 1)
                ELSE bsearch(key, m + 1, hi) : m \in lo..hi}

\* while ( ++end < fileListIndex + numFiles && !objcmp(&f,end) )
RECURSIVE findEnd(_, _)
findEnd(key, end) ==
    IF end + 1 <= Len(fileListIndex) /\ KeyCmp(key, end + 1) = 0
    THEN findEnd(key, end + 1) ELSE end + 1

\* while (--found >= fileListIndex && !objcmp(&f, found)), then found++
RECURSIVE findStart(_, _)
findStart(key, found) ==
    IF found - 1 >= 1 /\ KeyCmp(key, found - 1) = 0
    THEN findStart(key, found - 1) ELSE found

\* fileListFind(name, &pfound) when bsearch returns position hit: the return
\* value, and the position in fileListIndex pfound is set to (0: not set)
fileListFind(name, hit) ==
    IF ~FindKey(name).ok \/ hit = 0 THEN [rval |-> 0, found |-> 0]
    ELSE [rval |-> findEnd(FindKey(name), hit) - findStart(FindKey(name), hit),
          found |-> findStart(FindKey(name), hit)]

Hits(name) ==
    IF FindKey(name).ok THEN bsearch(FindKey(name), 1, Len(fileListIndex)) ELSE {0}

FindRec(name, r) ==
    [op |-> "fileListFind", arg |-> name, reject |-> FALSE, wl |-> <<>>, calls |-> 0,
     out |-> <<r.rval, r.found>>, mode |-> last.mode]

FileListFind(name) ==
    /\ pc = "linked"
    /\ \E hit \in Hits(name) : last' = FindRec(name, fileListFind(name, hit))
    /\ UNCHANGED <<pc, nfile, curObj, nobj, lastAppObj, symTbl, exports, imports,
                   link, lset, work, linkLog, abort, files, warn>>

\* the body of removeObjs' loop for one line of the removal list
removeLine(st, r) ==
    IF r.rval = 1 THEN unlinkObj(st, fileListIndex[r.found]) ELSE st

RemoveObjs(name) ==
    /\ pc = "linked"
    /\ \E hit \in Hits(name) :
          Commit(removeLine(OpSt, fileListFind(name, hit)), "removeObjs", name)
    /\ Frame

(* ------------------------------------------------------------------------ *)
NoOp == [op |-> "none", arg |-> NIL, reject |-> FALSE, wl |-> <<>>, calls |-> 0,
         out |-> <<>>, mode |-> 0]

Init ==
    /\ pc = "scan"
    /\ nfile = 0
    /\ curObj = NIL
    /\ nobj = 0
    /\ lastAppObj = NIL
    /\ symTbl = << >>
    /\ exports = [o \in {undefSymPod} |-> <<>>]
    /\ imports = [o \in {undefSymPod} |-> <<>>]
    /\ link = [o \in {undefSymPod} |-> [anchor |-> undefLinkSet, next |-> NIL]]
    /\ lset = [s \in LinkSets |-> IF s = undefLinkSet THEN undefSymPod ELSE NIL]
    /\ work = [o \in {undefSymPod} |-> NIL]
    /\ linkLog = <<>>
    /\ last = NoOp
    /\ abort = "none"
    /\ fileName = [o \in {undefSymPod} |-> UndefName]
    /\ fileLib = [o \in {undefSymPod} |-> NOLIB]
    /\ libList = <<>>
    /\ fileListIndex = <<>>
    /\ warn = FALSE

Ingest ==
    \/ ScanHeader(PlainName(nobj + 1))
    \/ \E s \in Syms, t \in ScanTypes : ScanSym(s, t, FALSE)
    \/ ScanEOF
    \/ Gather
    \/ LinkDriver

\* the link driver, then unlink operations in any order
Next ==
    \/ Ingest
    \/ \E f \in Objs : UnlinkObj(f)
    \/ UnlinkUndefs

Spec == Init /\ [][Next]_vars

\* the order of main(): unlinkUndefs once, then the lines of the removal list
NextMain ==
    \/ Ingest
    \/ last.op = "none" /\ UnlinkUndefs
    \/ \E f \in Objs : last.op # "none" /\ UnlinkObj(f)

SpecMain == Init /\ [][NextMain]_vars

\* every operation that uses the scratch slots, in any order
NextOps ==
    \/ Next
    \/ \E s \in Syms : TrackSym(s)
    \/ \E f \in Objs : TrackObj(f)
    \/ ShowDeps
    \/ \E ls \in {appLinkSet, optionalLinkSet} : CheckMultipleDefs(ls)
    \/ \E f \in Objs, mode \in {WALK_EXPORTS, WALK_IMPORTS} : DirectWalk(f, mode)

SpecOps == Init /\ [][NextOps]_vars

\* ingest with weak definitions among the symbol lines, then the link driver
NextWeak ==
    \/ ScanHeader(PlainName(nobj + 1))
    \/ \E s \in Syms, t \in ScanTypes \cup WeakTypes : ScanSym(s, t, FALSE)
    \/ ScanEOF
    \/ Gather
    \/ LinkDriver

SpecWeak == Init /\ [][NextWeak]_vars

\* ingest with common symbols among the symbol lines, the link driver, then
\* checkMultipleDefs on either link set, as main does for -m
DefTypes == {"U", "T", "C"}

NextDefs ==
    \/ ScanHeader(PlainName(nobj + 1))
    \/ \E s \in Syms, t \in DefTypes : ScanSym(s, t, FALSE)
    \/ ScanEOF
    \/ Gather
    \/ LinkDriver
    \/ \E ls \in {appLinkSet, optionalLinkSet} : CheckMultipleDefs(ls)

SpecDefs == Init /\ [][NextDefs]_vars

\* ingest with the -f option and symbols of unrecognized type ('?')
ForceTypes == {"U", "T", "C", "?"}

NextForce ==
    \/ ScanHeader(PlainName(nobj + 1))
    \/ \E s \in Syms, t \in ForceTypes : ScanSym(s, t, TRUE)
    \/ ScanEOF
    \/ Gather
    \/ LinkDriver

SpecForce == Init /\ [][NextForce]_vars

\* the link driver, then walks from any object in either direction, with
\* and without WALK_BUILD_LIST
NextWalk ==
    \/ Ingest
    \/ \E f \in Objs, mode \in {WALK_EXPORTS, WALK_IMPORTS} : ListWalk(f, mode)
    \/ \E f \in Objs, mode \in {WALK_EXPORTS, WALK_IMPORTS} : DirectWalk(f, mode)

SpecWalk == Init /\ [][NextWalk]_vars

\* named objects inside and outside libraries, then look-ups by name
HeaderNames == {<<"a">>, <<"b">>, <<"L", "[", "a", "]">>, <<"M", "[", "a", "]">>,
                <<"[", "a", "]">>, <<"a", "]">>}
FindNames == {<<"a">>, <<"L", "[", "a", "]">>, <<"M", "[", "a", "]">>,
              <<"N", "[", "a", "]">>, <<"[", "a", "]">>, <<"[", "b", "]">>,
              <<"a", "]">>}

NextFind ==
    \/ \E name \in HeaderNames : ScanHeader(name)
    \/ ScanEOF
    \/ Gather
    \/ LinkDriver
    \/ \E name \in FindNames : FileListFind(name)

SpecFind == Init /\ [][NextFind]_vars

\* unlink operations in any order, and the linker script of what is left
NextScript ==
    \/ Next
    \/ WriteScript

SpecScript == Init /\ [][NextScript]_vars

\* the order of main() with a removal list: unlinkUndefs once, then
\* removeObjs line by line
RemoveNames == {UndefName, PlainName(1), PlainName(2), <<"b">>}

NextRemove ==
    \/ Ingest
    \/ last.op = "none" /\ UnlinkUndefs
    \/ \E name \in RemoveNames : last.op # "none" /\ RemoveObjs(name)

SpecRemove == Init /\ [][NextRemove]_vars

(* ============================== properties ============================= *)
Cur == [symTbl |-> symTbl, exports |-> exports, imports |-> imports,
        link |-> link, lset |-> lset]
Nxt == [symTbl |-> symTbl', exports |-> exports', imports |-> imports',
        link |-> link', lset |-> lset']

RealObjs == 1..nobj
\* the objects contributed by the first input file
FirstBatch == IF lastAppObj = NIL THEN {} ELSE 1..lastAppObj

\* the owner of the first entry of the exporter list of s
FirstOwner(s) == ExRec(exports, symTbl[s].exportedBy).obj
\* the owners of the second and later entries
LaterOwners(s) ==
    LET lst == ExporterList(Cur, s)
    IN  {ExRec(exports, lst[k]).obj : k \in 2..Len(lst)}

\* objects reachable from S by imports, each resolved to the first exporter
ImportDeps(o) == {FirstOwner(imports[o][i].sym) : i \in 1..Len(imports[o])}
RECURSIVE ImportReach(_)
ImportReach(S) ==
    LET T == S \cup UNION {ImportDeps(o) : o \in S}
    IN  IF T = S THEN S ELSE ImportReach(T)

ListSet(q) == {q[k] : k \in 1..Len(q)}
Count(q, e) == Cardinality({k \in 1..Len(q) : q[k] = e})
InSet(o, ls) == link[o].anchor = ls /\ Count(SetList(Cur, ls), o) = 1

\* objects that import, directly or through others, a symbol exported by a
\* member of S (every importer of every exported symbol)
ExportDeps(st, o) ==
    UNION {{ExRec(st.imports, x).obj : x \in ListSet(ImporterList(st, st.exports[o][i].sym))} :
           i \in 1..Len(st.exports[o])}
RECURSIVE ExportReach(_, _)
ExportReach(st, S) ==
    LET T == S \cup UNION {ExportDeps(st, o) : o \in S}
    IN  IF T = S THEN S ELSE ExportReach(st, T)

Linked == pc = "linked"
AfterDriver == pc = "linked" /\ last.op = "none"

(* ---- C1 ---- *)
\* C1: after the link driver, every object contributed by an input that is
\* reachable from an object of the first input by imports resolved to the
\* first exporter is in the Application link set, whichever input
\* contributed it (the sentinel undefSymPod stays in UNDEFINED).
C1_ReachableInApplication ==
    Linked => \A o \in RealObjs :
                 o \in ImportReach(FirstBatch) => InSet(o, appLinkSet)

\* an object of a later input was pulled into Application
C1_Witness ==
    /\ AfterDriver
    /\ \E o \in RealObjs : /\ o \notin FirstBatch
                            /\ o \in ImportReach(FirstBatch)
                            /\ InSet(o, appLinkSet)

(* ---- C2 ---- *)
\* C2: after the link driver, every object in Application is an object of
\* the first input batch or reachable from one by first-exporter imports,
\* and every other object of a later batch is in Optional; also when the
\* first batch contributes no object.
C2_ApplicationOnlyReachable ==
    AfterDriver =>
        \A o \in RealObjs :
            /\ link[o].anchor = appLinkSet => o \in ImportReach(FirstBatch)
            /\ o \notin ImportReach(FirstBatch) => InSet(o, optionalLinkSet)

(* ---- C3 ---- *)
\* C3: linkObj recurses into (and assigns a link set to) an object because
\* of a symbol only if that object owns the first entry of the symbol's
\* exporter list; the owner of a later entry is never pulled in because of
\* that symbol, weak definitions or not.
C3_FirstExporterOnly ==
    pc \in {"linked", "aborted"} =>
        \A k \in 1..Len(linkLog) :
            /\ linkLog[k].obj = FirstOwner(linkLog[k].sym)
            /\ linkLog[k].obj \notin LaterOwners(linkLog[k].sym) \ {FirstOwner(linkLog[k].sym)}

\* an import of a symbol with two exporters, one of them weak, pulled in
\* an object
C3_Witness ==
    /\ AfterDriver
    /\ \E k \in 1..Len(linkLog) :
          LET lst == ExporterList(Cur, linkLog[k].sym)
          IN  /\ LaterOwners(linkLog[k].sym) \ {linkLog[k].obj} # {}
              /\ \E j \in 1..Len(lst) : ExRec(exports, lst[j]).weak

(* ---- C4 ---- *)
\* C4: a call of unlinkObj(o) that returns is rejected exactly when o or an
\* object that transitively imports a symbol exported by o (the members of
\* the work list) is in Application; a rejected call leaves every link node,
\* every link set's list and every importer list as they were.
C4_RejectedIffApplication ==
    [][(Linked /\ pc' = "linked" /\ last'.op = "unlinkObj") =>
         /\ ListSet(last'.wl) = ExportReach(Cur, {last'.arg})
         /\ last'.reject <=> \E m \in ExportReach(Cur, {last'.arg}) :
                                  link[m].anchor = appLinkSet
         /\ last'.reject => UNCHANGED <<link, lset, symTbl, imports, exports>>]_vars

\* an Optional object was refused because an Application object depends on it
C4_Witness ==
    /\ Linked /\ last.op = "unlinkObj" /\ last.reject
    /\ link[last.arg].anchor = optionalLinkSet
    /\ Len(last.wl) >= 2

(* ---- C5 ---- *)
\* C5: after the link driver no unlink operation changes the members or
\* the order of the Application list, nor takes an import of an
\* Application object out of an importer list.
AppImports(st) ==
    {<<o, i>> : o \in RealObjs, i \in 1..MaxRefs} \cap
    {x \in UNION {ListSet(ImporterList(st, s)) : s \in DOMAIN symTbl} :
        st.link[x[1]].anchor = appLinkSet}

C5_ApplicationUntouched ==
    [][Linked =>
         /\ SetList(Nxt, appLinkSet) = SetList(Cur, appLinkSet)
         /\ \A f \in ListSet(SetList(Cur, appLinkSet)) :
               link'[f].anchor = appLinkSet
         /\ AppImports(Cur) \subseteq AppImports(Nxt)]_vars

\* an accepted unlinkObj took out an object that imports a symbol an
\* Application object imports too
C5_Witness ==
    /\ Linked /\ last.op = "unlinkObj" /\ ~last.reject
    /\ Len(SetList(Cur, appLinkSet)) >= 2
    /\ \E k \in 1..Len(last.wl) : \E i \in 1..Len(imports[last.wl[k]]) :
          \E x \in AppImports(Cur) :
              imports[x[1]][x[2]].sym = imports[last.wl[k]][i].sym

(* ---- C6 ---- *)
\* C6 (as stated): at every quiescent state after the link driver every
\* non-sentinel object is a member of exactly one link set's object list.
Memberships(o) == Count(SetList(Cur, appLinkSet), o)
                  + Count(SetList(Cur, optionalLinkSet), o)
                  + Count(SetList(Cur, undefLinkSet), o)

C6_ExactlyOneLinkSet == Linked => \A o \in RealObjs : Memberships(o) = 1

\* C6 (amended): an object whose link set handle is set (it was not removed
\* by an accepted unlinkObj) is a member of exactly one link set's list;
\* an object removed by an accepted unlinkObj is a member of none.
C6_OneOrRemoved ==
    Linked => \A o \in RealObjs :
                 IF link[o].anchor = NoSet THEN Memberships(o) = 0
                 ELSE Memberships(o) = 1 /\ InSet(o, link[o].anchor)

\* one object was removed, another is still linked
C6_Witness ==
    /\ Linked
    /\ \E o, q \in RealObjs : /\ link[o].anchor = NoSet /\ Memberships(o) = 0
                               /\ link[q].anchor # NoSet /\ Memberships(q) = 1

(* ---- C7 ---- *)
\* C7: in the link driver followed by unlinkUndefs and the lines of a
\* removal list, each naming one object, no structural assertion of the
\* unlink path fails, also when a line names an object twice or names an
\* object that was unlinked before.
UnlinkAsserts == {"doUnlink: assert(p)", "doUnlink: assert(*pl)",
                  "checkSanity: importedFrom == 0",
                  "depwalk_rec: 0 == checkCircWorkList(f)"}

C7_NoUnlinkAssertFails == abort \notin UnlinkAsserts

(* ---- C8 ---- *)
\* C8: after the link driver and any unlink operations, every import of an
\* object in a link set is exactly once in the importer list of its symbol
\* (and in no other), every import of an object in no link set has no next
\* and is in no importer list, and an accepted unlinkObj leaves every
\* member of its work list without link set and without next-in-set.
Occurs(x, s) == Count(ImporterList(Cur, s), x)

C8_ImportersMatchLinkState ==
    Linked =>
        /\ \A o \in Objs : \A i \in 1..Len(imports[o]) : \A s \in DOMAIN symTbl :
              IF link[o].anchor # NoSet
              THEN Occurs(<<o, i>>, s) = IF s = imports[o][i].sym THEN 1 ELSE 0
              ELSE Occurs(<<o, i>>, s) = 0 /\ imports[o][i].next = NILX
        /\ (last.op = "unlinkObj" /\ ~last.reject) =>
              \A k \in 1..Len(last.wl) :
                  link[last.wl[k]] = [anchor |-> NoSet, next |-> NIL]

\* an accepted unlinkObj removed two objects, one of them with an import
\* that was not the last of its importer list
C8_Witness ==
    /\ Linked /\ last.op = "unlinkObj" /\ ~last.reject
    /\ Len(last.wl) >= 2
    /\ \E k \in 1..Len(last.wl) : Len(imports[last.wl[k]]) > 0
    /\ \E s \in DOMAIN symTbl : symTbl[s].importedFrom # NILX

(* ---- C9 ---- *)
\* C9: after every completed operation that uses the scratch slots the
\* work slot of every object, undefSymPod included, is nil.
C9_WorkSlotsNil == Linked => \A o \in Objs : work[o] = NIL

\* a walk that presented at least two objects to its visitor has completed
C9_Witness ==
    /\ Linked /\ last.op \in {"trackObj", "trackSym", "showDeps", "depwalk"}
    /\ last.calls >= 3
    /\ \A o \in Objs : work[o] = NIL

(* ---- C10 ---- *)
\* C10: unlinkUndefs returns, and then every import left in the importer
\* list of a symbol exported by undefSymPod is owned by an object of the
\* Application link set.
C10_UndefImportersInApplication ==
    /\ abort # "unlinkUndefs: no end"
    /\ (Linked /\ last.op = "unlinkUndefs") =>
          \A i \in 1..Len(exports[undefSymPod]) :
              \A x \in ListSet(ImporterList(Cur, exports[undefSymPod][i].sym)) :
                  link[ExRec(imports, x).obj].anchor = appLinkSet

(* ---- C11 ---- *)
\* the symbols checkMultipleDefs(ls) is to report: more than one entry in
\* the exporter list, recorded type not C, exported by a member of ls
Clash(s, ls) ==
    /\ Len(ExporterList(Cur, s)) > 1
    /\ symTbl[s].type # "C"
    /\ \E o \in ListSet(SetList(Cur, ls)) :
          \E i \in 1..Len(exports[o]) : exports[o][i].sym = s

\* C11: checkMultipleDefs(S) reports (and counts in its return value)
\* exactly once every symbol with more than one exporter, a type other
\* than C and an exporter in S, and reports no other symbol.
C11_EachClashOnce ==
    (Linked /\ last.op = "checkMultipleDefs") =>
        \A s \in DOMAIN symTbl :
            Count(last.out, s) = IF Clash(s, last.arg) THEN 1 ELSE 0

(* ---- C12 ---- *)
\* the symbols no ingested object exports
Undefined ==
    {s \in DOMAIN symTbl :
        \A o \in RealObjs : \A i \in 1..Len(exports[o]) : exports[o][i].sym # s}

\* C12: after gatherDanglingUndefs every symbol of the symbol table has a
\* non-empty exporter list; the export array of undefSymPod holds exactly
\* the symbols no ingested object exports, each once and in the order of
\* their names, and undefSymPod is the only exporter of each of them.
C12_UndefsGathered ==
    pc # "scan" =>
        /\ \A s \in DOMAIN symTbl : ExporterList(Cur, s) # <<>>
        /\ {exports[undefSymPod][i].sym : i \in 1..Len(exports[undefSymPod])} = Undefined
        /\ \A i, j \in 1..Len(exports[undefSymPod]) :
              i < j => exports[undefSymPod][i].sym < exports[undefSymPod][j].sym
        /\ \A i \in 1..Len(exports[undefSymPod]) :
              /\ exports[undefSymPod][i].obj = undefSymPod
              /\ ExporterList(Cur, exports[undefSymPod][i].sym) = <<(<<undefSymPod, i>>)>>

\* two undefined symbols were gathered that the input names in the
\* reverse of their name order
C12_Witness ==
    /\ pc = "gathered"
    /\ Len(exports[undefSymPod]) >= 2
    /\ \E o \in RealObjs : \E i, j \in 1..Len(imports[o]) :
          i < j /\ imports[o][i].sym > imports[o][j].sym

(* ---- C13 ---- *)
\* the export array slots that name symbol s
ExportSites(s) ==
    {x \in UNION {{<<o, i>> : i \in 1..Len(exports[o])} : o \in Objs} :
        ExRec(exports, x).sym = s}

\* slot x comes before slot y: its object was ingested earlier, or it is an
\* earlier slot of the same object
SiteBefore(x, y) == x[1] < y[1] \/ (x[1] = y[1] /\ x[2] < y[2])

\* checkObjPtrs() == 0
checkObjPtrs ==
    \A o \in Objs :
        /\ \A i \in 1..Len(exports[o]) : exports[o][i].obj = o
        /\ \A i \in 1..Len(imports[o]) : imports[o][i].obj = o

\* C13: after ingest and after any link and unlink operations the exporter
\* list of each symbol holds exactly the export XRefs that name it, each
\* once, in the ingest order of their objects and in array order within an
\* object, and every XRef's owner is the object whose array holds it.
C13_ExporterListsInIngestOrder ==
    pc # "scan" =>
        /\ \A s \in DOMAIN symTbl :
              LET lst == ExporterList(Cur, s)
              IN  /\ ListSet(lst) = ExportSites(s)
                  /\ Len(lst) = Cardinality(ExportSites(s))
                  /\ \A a, b \in 1..Len(lst) : a < b => SiteBefore(lst[a], lst[b])
        /\ checkObjPtrs

\* a symbol exported twice by one object and once by a later one, after
\* an accepted unlinkObj
C13_Witness ==
    /\ Linked /\ last.op = "unlinkObj" /\ ~last.reject
    /\ \E s \in DOMAIN symTbl :
          LET lst == ExporterList(Cur, s)
          IN  /\ Len(lst) >= 3
              /\ lst[1][1] = lst[2][1]
              /\ lst[3][1] # lst[1][1]

(* ---- C14 ---- *)
\* the objects a walk in the given mode can reach from f: by imports, each
\* resolved to the first exporter, or by the importers of every export
WalkReach(f, mode) ==
    IF DO_EXPORTS(mode) THEN ExportReach(Cur, {f}) ELSE ImportReach({f})

\* the objects presented to the visitor, in the order of the calls
Visited(out) == [d \in 1..Len(out) |-> out[d][1]]

\* C14: a WALK_BUILD_LIST walk comes to an end, and its work list starts
\* with the start object and holds every object reachable from it in the
\* mode of the walk exactly once, and no other object.
C14_WorkListIsReachSet ==
    /\ abort # "workListIterate: no end"
    /\ (Linked /\ last.op = "listwalk") =>
          LET seq == Visited(last.out)
              R == WalkReach(last.arg[1], last.arg[2])
          IN  /\ Len(seq) >= 1 /\ seq[1] = last.arg[1]
              /\ ListSet(seq) = R
              /\ Len(seq) = Cardinality(R)
              /\ \A d \in 1..Len(seq) : last.out[d][2] = d - 1

\* a walk from an object on a cycle
C14_Witness ==
    /\ Linked /\ last.op = "listwalk"
    /\ Len(last.out) >= 2
    /\ \E o \in ListSet(Visited(last.out)) \ {last.arg[1]} :
          last.arg[1] \in WalkReach(o, last.arg[2])

(* ---- C15: work-list order against the order of first entries ---- *)
\* the objects a sequence of visitor calls names for the first time, in order
RECURSIVE FirstEntries(_, _)
FirstEntries(seq, d) ==
    IF d > Len(seq) THEN <<>>
    ELSE (IF \E e \in 1..(d - 1) : seq[e] = seq[d] THEN <<>> ELSE <<seq[d]>>)
         \o FirstEntries(seq, d + 1)

\* the objects the visitor of the same walk is called with when the walk is
\* run from the current state without WALK_BUILD_LIST
DirectEntries(f, mode) == Visited(depwalk(OpSt, OpSt, f, TRUE, mode).out)

SameSetSameStart(lst, dir) ==
    /\ ListSet(lst) = ListSet(dir)
    /\ Len(lst) = Cardinality(ListSet(dir))
    /\ Len(dir) >= 1
    /\ lst[1] = dir[1]

\* C15: the deferred visitor of a WALK_BUILD_LIST walk is presented the
\* objects in the order in which the same walk without WALK_BUILD_LIST
\* enters them for the first time (same objects, same order).
C15_ListOrderIsFirstEntryOrder ==
    (Linked /\ last.op = "listwalk") =>
        Visited(last.out) = FirstEntries(DirectEntries(last.arg[1], last.arg[2]), 1)

\* C15 (amended): the deferred visitor of a WALK_BUILD_LIST walk is presented
\* each object the same walk without WALK_BUILD_LIST enters, exactly once
\* and the start object first; the order of the others is not the order of
\* first entry.
C15_ListSetIsDirectSet ==
    (Linked /\ last.op = "listwalk") =>
        SameSetSameStart(Visited(last.out), DirectEntries(last.arg[1], last.arg[2]))

\* a list walk over three objects whose list order differs from the order of
\* first entry
C15_Witness ==
    /\ Linked
    /\ last.op = "listwalk"
    /\ Len(last.out) >= 3
    /\ Visited(last.out) # FirstEntries(DirectEntries(last.arg[1], last.arg[2]), 1)

(* ---- C20: how often a direct walk calls its visitor ---- *)
\* C20: a walk without WALK_BUILD_LIST calls its visitor exactly once for
\* every object reachable from the start object in the walk's mode, also for
\* objects reachable along several paths.
C20_DirectVisitsEachOnce ==
    (Linked /\ last.op = "depwalk") =>
        /\ ListSet(Visited(last.out)) = WalkReach(last.arg[1], last.arg[2])
        /\ Len(last.out) = Cardinality(WalkReach(last.arg[1], last.arg[2]))

\* C20 (amended): a walk without WALK_BUILD_LIST calls its visitor at least
\* once for every object reachable from the start object in the walk's mode
\* and for no other object; the start object is visited exactly once, first
\* and at depth 0, every other call at a depth between 1 and the number of
\* other reachable objects.
C20_DirectVisitsReachSet ==
    (Linked /\ last.op = "depwalk") =>
        /\ ListSet(Visited(last.out)) = WalkReach(last.arg[1], last.arg[2])
        /\ last.out[1] = <<last.arg[1], 0>>
        /\ Count(Visited(last.out), last.arg[1]) = 1
        /\ \A d \in 2..Len(last.out) :
              last.out[d][2] \in 1..(Cardinality(WalkReach(last.arg[1], last.arg[2])) - 1)

\* a direct walk that called its visitor twice for one object
C20_Witness ==
    /\ Linked
    /\ last.op = "depwalk"
    /\ \E o \in Objs : Count(Visited(last.out), o) >= 2

(* ---- C16: what fileListFind returns ---- *)
\* the objects a name with brackets asks for: lib[member] the objects
\* called member in the library called lib, [member] every object called
\* member
Matching(name) ==
    IF splitName(name).lib # <<>>
    THEN {o \in Objs : /\ fileName[o] = splitName(name).objn
                       /\ fileLib[o] # NOLIB
                       /\ libList[fileLib[o]] = splitName(name).lib}
    ELSE {o \in Objs : fileName[o] = splitName(name).objn}

Bracketed(name) == splitName(name).ok /\ splitName(name).po # 0

\* the objects in the run of rval index entries from pfound on
FoundRun(out) == {fileListIndex[p] : p \in out[2]..(out[2] + out[1] - 1)}

\* C16: for a query lib[member] or [member], fileListFind returns the number
\* of objects that match it (member name, and library name unless the
\* library part is empty; none if no library of that name is registered),
\* and these objects are the index entries pfound[0] .. pfound[rval-1].
C16_FindReturnsMatches ==
    (Linked /\ last.op = "fileListFind" /\ Bracketed(last.arg)) =>
        /\ last.out[1] = Cardinality(Matching(last.arg))
        /\ last.out[1] > 0 =>
              /\ last.out[2] >= 1
              /\ last.out[2] + last.out[1] - 1 <= Len(fileListIndex)
              /\ FoundRun(last.out) = Matching(last.arg)

\* a query lib[member] that found one object among three of that name
C16_Witness ==
    /\ Linked
    /\ last.op = "fileListFind"
    /\ Bracketed(last.arg)
    /\ splitName(last.arg).lib # <<>>
    /\ last.out[1] = 1
    /\ Cardinality({o \in Objs : fileName[o] = splitName(last.arg).objn}) >= 3

(* ---- C17: the linker script ---- *)
\* the symbols of the EXTERN lines written for object o, in output order
RECURSIVE ObjLines(_, _)
ObjLines(out, o) ==
    IF out = <<>> THEN <<>>
    ELSE (IF Head(out)[1] = o THEN <<Head(out)[2]>> ELSE <<>>) \o ObjLines(Tail(out), o)

\* rank of the block of object o in the script: Application before Optional,
\* within a set the position in its object list
ScriptRank(o) ==
    IF link[o].anchor = appLinkSet THEN Pos(SetList(Cur, appLinkSet), o)
    ELSE nobj + 1 + Pos(SetList(Cur, optionalLinkSet), o)

\* C17: the script holds, for every object in the Application or Optional
\* set, one EXTERN line per entry of its export array, in array order and
\* without deduplication; the blocks of the Application objects come first,
\* each set's blocks in the order of its object list; removed objects and
\* undefSymPod get no line.
C17_ScriptListsExports ==
    (Linked /\ last.op = "writeScript") =>
        /\ \A o \in Objs :
              ObjLines(last.out, o) =
                 IF link[o].anchor \in {appLinkSet, optionalLinkSet}
                 THEN [n \in 1..Len(exports[o]) |-> exports[o][n].sym]
                 ELSE <<>>
        /\ \A d, e \in 1..Len(last.out) :
              d < e => ScriptRank(last.out[d][1]) <= ScriptRank(last.out[e][1])

\* a script with lines for an Application and an Optional object, written
\* after an object with exports was removed
C17_Witness ==
    /\ Linked
    /\ last.op = "writeScript"
    /\ Len(last.out) >= 2
    /\ link[last.out[1][1]].anchor = appLinkSet
    /\ link[last.out[Len(last.out)][1]].anchor = optionalLinkSet
    /\ \E o \in RealObjs : link[o].anchor = NoSet /\ Len(exports[o]) >= 1

(* ---- C18: the UNDEFINED link set ---- *)
\* C18: after the link driver, unlinkUndefs and any lines of a removal list,
\* the object list of the UNDEFINED link set is undefSymPod alone and the
\* link set of undefSymPod is UNDEFINED.
C18_UndefinedSetIsSentinel ==
    Linked =>
        /\ SetList(Cur, undefLinkSet) = <<undefSymPod>>
        /\ link[undefSymPod].anchor = undefLinkSet

(* ---- C19: symbols of type '?' with -f ---- *)
\* C19: with the force flag set, a step that ingests a symbol record of type
\* '?' leaves the symbol table (the recorded type included) and the object
\* graph in the state that ingesting the same record with type 'U' leaves.
C19_ForcedUnknownIsUndef ==
    [][\A s \in Syms : ScanSym(s, "?", TRUE) => ScanSym(s, "U", TRUE)]_vars

(* ---- C21: the two walk modes as converse relations ---- *)
\* the objects that are in the Application or the Optional link set
LinkedObjs == {o \in RealObjs : link[o].anchor \in {appLinkSet, optionalLinkSet}}

\* C21: after the link driver, for linked objects p and q, the exports-mode
\* walk from p visits q exactly if the imports-mode walk from q visits p.
C21_ExportsWalkIsConverse ==
    AfterDriver =>
        \A p, q \in LinkedObjs :
            q \in WalkReach(p, WALK_EXPORTS) <=> p \in WalkReach(q, WALK_IMPORTS)

(* ---- C22: walks are serialised ---- *)
WalkPairingAsserts == {"depwalk: f->work == 0",
                       "depwalk: !(depwalkMode & WALK_BUILD_LIST)",
                       "depwalkListRelease: depwalkMode & WALK_BUILD_LIST"}

\* C22: in trackSym, trackObj, unlinkObj, unlinkUndefs, removeObjs and the
\* dependency dump every WALK_BUILD_LIST walk is released before the next
\* walk starts: the entry assertions of depwalk and the assertion of
\* depwalkListRelease never fail, and every operation leaves depwalkMode
\* without the WALK_BUILD_LIST bit and every work slot nil.
C22_WalksReleasedBeforeNext ==
    /\ abort \notin WalkPairingAsserts
    /\ Linked => /\ ~BuildList(last.mode)
                 /\ \A o \in Objs : work[o] = NIL

\* trackObj has run its two walks one after the other, and one of them
\* went beyond its start object
C22_Witness ==
    /\ Linked
    /\ last.op = "trackObj"
    /\ last.calls >= 3
    /\ ~BuildList(last.mode)

(* ---- C23: importer lists after an accepted unlinkObj ---- *)
\* C23: after an accepted unlinkObj the importer list of every symbol
\* exported by a member of its work list is empty, whether the member is the
\* first exporter of the symbol or a later one; the assertion of checkSanity
\* never fails.
C23_MembersExportsUnimported ==
    /\ abort # "checkSanity: importedFrom == 0"
    /\ (Linked /\ last.op = "unlinkObj" /\ ~last.reject) =>
          \A k \in 1..Len(last.wl) : \A i \in 1..Len(exports[last.wl[k]]) :
              symTbl[exports[last.wl[k]][i].sym].importedFrom = NILX

\* an accepted unlinkObj whose work list holds a later exporter of a symbol
\* together with an object that imported the symbol
C23_Witness ==
    /\ Linked
    /\ last.op = "unlinkObj"
    /\ ~last.reject
    /\ \E k \in 1..Len(last.wl) : \E i \in 1..Len(exports[last.wl[k]]) :
          /\ symTbl[exports[last.wl[k]][i].sym].exportedBy # <<last.wl[k], i>>
          /\ \E j \in 1..Len(last.wl) : \E n \in 1..Len(imports[last.wl[j]]) :
                imports[last.wl[j]][n].sym = exports[last.wl[k]][i].sym

\* C24: during ingest the recorded type of a symbol changes only when it is
\* 'U', and a symbol line of type t then makes it t; a recorded type other
\* than 'U' stays whatever lines follow; the line draws the type-mismatch
\* warning exactly when the symbol is known, the recorded type and t differ,
\* and neither is 'U'
TypeKept(s) == s \in DOMAIN symTbl /\ symTbl[s].type # "U"

C24_TypeChangesOnlyFromU ==
    [][/\ \A n \in DOMAIN symTbl :
              TypeKept(n) => n \in DOMAIN symTbl' /\ symTbl'[n].type = symTbl[n].type
       /\ \A s \in Syms, t \in DefTypes :
              ScanSym(s, t, FALSE) =>
                  /\ (s \in DOMAIN symTbl /\ symTbl[s].type = "U") => symTbl'[s].type = t
                  /\ warn' <=> /\ s \in DOMAIN symTbl
                               /\ symTbl[s].type # t
                               /\ symTbl[s].type # "U" /\ t # "U"]_vars

\* a symbol recorded as common has just met a 'T' line: the warning was drawn
\* and the type stayed
C24_Witness ==
    /\ pc = "scan" /\ warn
    /\ \E s \in DOMAIN symTbl :
          /\ symTbl[s].type = "C"
          /\ \E o \in RealObjs : \E i \in 1..Len(exports[o]) : exports[o][i].sym = s
          /\ \E o \in RealObjs : \E i \in 1..Len(imports[o]) : imports[o][i].sym = s

\* C25: the object list of each link set is in reverse order of completion
\* of the linkObj invocations: an object is put at the head when all the
\* recursion started from its imports has returned, so an object whose
\* invocation recursed into a dependency d stands before d in the list
\* the objects linkObj(f) recursed into, in the order of the calls
RECURSIVE CalleesFrom(_, _)
CalleesFrom(f, k) ==
    IF k > Len(linkLog) THEN <<>>
    ELSE (IF linkLog[k].from = f THEN <<linkLog[k].obj>> ELSE <<>>)
         \o CalleesFrom(f, k + 1)

\* the order in which linkObj(f) and the invocations below it returned
RECURSIVE Completion(_), CompletionOf(_, _)
Completion(f) == CompletionOf(CalleesFrom(f, 1), 1) \o <<f>>

CompletionOf(q, k) ==
    IF k > Len(q) THEN <<>> ELSE Completion(q[k]) \o CompletionOf(q, k + 1)

DriverCalled(f) == \A k \in 1..Len(linkLog) : linkLog[k].obj # f

\* the order in which the invocations for link set ls returned, those called
\* by the driver for objects f.. and all below them
RECURSIVE DriverCompletion(_, _)
DriverCompletion(ls, f) ==
    IF f > nobj THEN <<>>
    ELSE (IF link[f].anchor = ls /\ DriverCalled(f) THEN Completion(f) ELSE <<>>)
         \o DriverCompletion(ls, f + 1)

Backwards(q) == [k \in 1..Len(q) |-> q[Len(q) + 1 - k]]

StandsBefore(q, a, b) ==
    \E i, j \in 1..Len(q) : i < j /\ q[i] = a /\ q[j] = b

C25_ListIsReverseCompletion ==
    AfterDriver =>
        /\ \A ls \in {appLinkSet, optionalLinkSet} :
               SetList(Cur, ls) = Backwards(DriverCompletion(ls, 1))
        /\ \A k \in 1..Len(linkLog) :
               StandsBefore(SetList(Cur, link[linkLog[k].from].anchor),
                            linkLog[k].from, linkLog[k].obj)

\* the recursion went two levels deep: an object was linked because of an
\* import of an object that was itself linked because of an import
C25_Witness ==
    /\ AfterDriver
    /\ \E j, k \in 1..Len(linkLog) : linkLog[k].from = linkLog[j].obj

\* C26: no walk, in either mode, follows a cross-reference whose owner is the
\* object being expanded, also when an object lists one symbol as an export
\* and as an import: the assertion ref->obj != f of depwalk_rec never ends
\* unlinkObj, unlinkUndefs, trackSym or trackObj
C26_WalkNeverMeetsItself ==
    ~(/\ abort = "depwalk_rec: ref->obj != f"
      /\ last.op \in {"unlinkObj", "unlinkUndefs", "trackSym", "trackObj"})

\* C27: at every quiescent state after the link driver an object, the
\* sentinel included, is in the object list of link set S exactly when its
\* link set handle is S, and then once; every list ends in nil and has no
\* cycle; accepted and rejected unlinkObj calls keep this
NilTerminated(ls) ==
    /\ Len(SetList(Cur, ls)) <= nobj + 1
    /\ \A i, j \in 1..Len(SetList(Cur, ls)) :
           SetList(Cur, ls)[i] = SetList(Cur, ls)[j] => i = j
    /\ SetList(Cur, ls) # <<>> => link[SetList(Cur, ls)[Len(SetList(Cur, ls))]].next = NIL

C27_ListsMatchHandles ==
    Linked => \A ls \in LinkSets :
                 /\ NilTerminated(ls)
                 /\ \A o \in Objs :
                        /\ o \in ListSet(SetList(Cur, ls)) <=> link[o].anchor = ls
                        /\ Count(SetList(Cur, ls), o) <= 1

\* a rejected unlinkObj after an object was removed, with objects left in
\* the Application and in the Optional list
C27_Witness ==
    /\ Linked
    /\ last.op = "unlinkObj" /\ last.reject
    /\ \E o \in RealObjs : link[o].anchor = NoSet
    /\ lset[appLinkSet] # NIL /\ lset[optionalLinkSet] # NIL

\* C28: after the link driver and after any unlinkObj, unlinkUndefs and
\* removeObjs calls the linked objects are closed under dependencies: every
\* import of an Application object is resolved to a first exporter owned by
\* an Application object or by the sentinel, every import of an Optional
\* object to one owned by an Application object, an Optional object or the
\* sentinel
Resolved(o, i) ==
    /\ symTbl[imports[o][i].sym].exportedBy # NILX
    /\ \/ FirstOwner(imports[o][i].sym) = undefSymPod
       \/ link[FirstOwner(imports[o][i].sym)].anchor = appLinkSet
       \/ /\ link[o].anchor = optionalLinkSet
          /\ link[FirstOwner(imports[o][i].sym)].anchor = optionalLinkSet

C28_LinkedClosedUnderDeps ==
    Linked => \A o \in LinkedObjs : \A i \in 1..Len(imports[o]) : Resolved(o, i)

\* an accepted unlinkObj removed an object that exports a symbol a removed
\* object imports, and left an Optional object whose import is resolved to
\* another real object
C28_Witness ==
    /\ Linked /\ last.op = "unlinkObj" /\ ~last.reject /\ Len(last.wl) >= 2
    /\ \E o \in RealObjs : \E i \in 1..Len(imports[o]) :
          /\ link[o].anchor = optionalLinkSet
          /\ FirstOwner(imports[o][i].sym) \in RealObjs \ {o}

============================================================================
